---- MODULE Spec2Model ----
(***************************************************************************)
(* Keyword Opportunity Aggregator of src/server.py                         *)
(* (fetch_keyword_opportunities_impl and its helpers).                     *)
(*                                                                         *)
(* Strings are sequences of tokens.  A token is an atomic piece of text:  *)
(* a URL scheme ("https://"), the "www." prefix, one blank (" "), a path   *)
(* separator ("/"), an opening bracket ("["), or a label in lower or upper *)
(* case ("a"/"A").  strip(), lower(), replace() and urlparse() are         *)
(* computed on these sequences the way Python computes them on text.       *)
(*                                                                         *)
(* Decimal numbers (cpc, competition, score) are integers counted in       *)
(* units of 10^-5, so that round(x, 4) is a real rounding step.            *)
(***************************************************************************)
EXTENDS Integers, Sequences, FiniteSets, TLC

\* ------------------------------------------------------------------ bounds
\* Largest number of items one gap response carries.
MaxItems == 2
\* Largest number of items all gap responses of one run carry together.
MaxRunItems == 3

\* Number of callers of writeHTML.
NumWriters == 2
\* Largest version_number a caller passes to writeHTML.
MaxVersion == 3
\* Number of callers of createStrategy.
NumCreators == 2
\* createStrategy is called while strategies has fewer rows than this.
MaxStrategies == 3

\* --------------------------------------------------------------- constants
MAX_OPPORTUNITIES_COMPETITORS == 3
MAX_OPPORTUNITIES_KEYWORDS_PER_COMPETITOR == 250
\* One unit of the fourth decimal place, in model units of 10^-5.
RoundUnit == 10
\* The number 1, in model units of 10^-5.
One == 100000
\* v["competitors"][:5]
ExampleCompetitors == 5

\* Python's None, as the value of result["error"]
None == "None"
\* an exception raised by urlparse, in place of the text it would return
Raise == <<"ValueError">>

\* ---------------------------------------------------------------- strings
Min(a, b) == IF a <= b THEN a ELSE b
Max(a, b) == IF a >= b THEN a ELSE b

\* str.lower() on one token
LowerTok(t) ==
  CASE t = "A" -> "a"
    [] t = "B" -> "b"
    [] t = "K" -> "k"
    [] t = ".JPG" -> ".jpg"
    [] OTHER -> t

\* str.lower()
Lower(s) == [i \in 1..Len(s) |-> LowerTok(s[i])]

RECURSIVE LStrip(_)
LStrip(s) == IF s # <<>> /\ Head(s) = " " THEN LStrip(Tail(s)) ELSE s

RECURSIVE RStrip(_)
RStrip(s) ==
  IF s # <<>> /\ s[Len(s)] = " " THEN RStrip(SubSeq(s, 1, Len(s) - 1)) ELSE s

\* str.strip()
Strip(s) == RStrip(LStrip(s))

\* str.replace(tok, "")
Remove(s, tok) == SelectSeq(s, LAMBDA t : t # tok)

\* position of the first "/" of s, or Len(s) + 1
RECURSIVE FirstSlash(_, _)
FirstSlash(s, i) ==
  IF i > Len(s) THEN i ELSE IF s[i] = "/" THEN i ELSE FirstSlash(s, i + 1)

InSeq(x, s) == \E i \in 1..Len(s) : s[i] = x

\* urlparse(site_url).netloc: the text between "scheme://" and the first
\* "/"; empty when the text has no scheme.  urlparse strips leading blanks
\* and raises ValueError on a netloc with an unmatched bracket.
UrlNetloc(site_url) ==
  LET u == LStrip(site_url) IN
  IF u # <<>> /\ Head(u) \in {"https://", "http://"}
  THEN LET rest == Tail(u)
           netloc == SubSeq(rest, 1, FirstSlash(rest, 1) - 1)
       IN IF InSeq("[", netloc) /\ ~InSeq("]", netloc) THEN Raise ELSE netloc
  ELSE <<>>

\* _normalize_target_domain; Raise when urlparse raises
_normalize_target_domain(site_url) ==
  LET p == UrlNetloc(site_url) IN
  IF p = Raise THEN Raise
  ELSE LET netloc == Lower(Strip(p)) IN
       IF netloc = <<>> THEN <<>>
       ELSE IF Head(netloc) = "www." THEN Tail(netloc)
       ELSE netloc

\* a slip: the fallback without .strip()
TargetOf_NoStrip(domain) ==
  LET n == _normalize_target_domain(domain) IN
  IF n = Raise THEN Raise
  ELSE IF n # <<>> THEN n
  ELSE Lower(Remove(Remove(domain, "https://"), "http://"))

\* target = _normalize_target_domain(domain)
\*          or domain.replace("https://", "").replace("http://", "").strip().lower()
TargetOf(domain) ==
  LET n == _normalize_target_domain(domain) IN
  IF n = Raise THEN Raise
  ELSE IF n # <<>> THEN n
  ELSE Lower(Strip(Remove(Remove(domain, "https://"), "http://")))

\* a slip: the secret alone taken for credentials
_dataforseo_basic_auth_SecretAlone(e) ==
  IF e.DATAFORSEO_USERNAME \/ e.DATAFORSEO_API_KEY \/ e.DATAFORSEO_API_SECRET
  THEN "b64" ELSE ""

\* _dataforseo_basic_auth(): the Basic auth text, "" without credentials
_dataforseo_basic_auth(e) ==
  LET username == e.DATAFORSEO_USERNAME \/ e.DATAFORSEO_API_KEY
      secret == e.DATAFORSEO_API_SECRET
  IN IF username /\ secret THEN "b64(username:secret)"
     ELSE IF username THEN "username"
     ELSE ""

\* lst[:n] of Python, n any integer
PySlicePrefix(lst, n) ==
  IF n >= 0 THEN SubSeq(lst, 1, Min(n, Len(lst)))
  ELSE SubSeq(lst, 1, Max(Len(lst) + n, 0))

\* ------------------------------------------------------------ JSON values
\* A JSON value of an upstream response: absent/null, a number, or a text.
JNone == <<"none">>
JNum(n) == <<"num", n>>
JStr(s) == <<"str", s>>

\* Python truthiness of a JSON value
Truthy(v) ==
  \/ v[1] = "num" /\ v[2] # 0
  \/ v[1] = "str" /\ v[2] # <<>>

\* v or w
Or(v, w) == IF Truthy(v) THEN v ELSE w

\* int(x or 0) and float(x or 0): a number, or an exception on a text that
\* is not a number
Raises(v) == Truthy(v) /\ v[1] = "str"
NumOr0(v) == IF Truthy(v) THEN v[2] ELSE 0

\* round(x, 4): to the nearest multiple of RoundUnit, a tie to the even one
Round4(x) ==
  LET q == x \div RoundUnit
      r == x % RoundUnit
  IN IF 2 * r < RoundUnit THEN q * RoundUnit
     ELSE IF 2 * r > RoundUnit THEN (q + 1) * RoundUnit
     ELSE IF q % 2 = 0 THEN q * RoundUnit ELSE (q + 1) * RoundUnit

\* --------------------------------------------------- competitor discovery
\* the "target" of the competitors_domain payload:
\* _normalize_target_domain(target) or target
PayloadTarget(target) ==
  LET n == _normalize_target_domain(target) IN
  IF n = Raise THEN Raise ELSE IF n # <<>> THEN n ELSE target

\* domains.append(d.strip().lower()) for every item whose domain is a
\* non-empty text
RECURSIVE ItemDomains(_)
ItemDomains(items) ==
  IF items = <<>> THEN <<>>
  ELSE LET d == Head(items)
           rest == ItemDomains(Tail(items))
       IN IF Truthy(d) /\ d[1] = "str" THEN <<Lower(Strip(d[2]))>> \o rest
          ELSE rest

\* "Dedupe, exclude target": the domains in order, without target_norm and
\* without a domain seen before
RECURSIVE DedupeExclude(_, _, _)
DedupeExclude(domains, target_norm, seen) ==
  IF domains = <<>> THEN <<>>
  ELSE LET d == Head(domains) IN
       IF d = target_norm \/ d \in seen
       THEN DedupeExclude(Tail(domains), target_norm, seen)
       ELSE <<d>> \o DedupeExclude(Tail(domains), target_norm, seen \cup {d})

\* _fetch_competitors_domain, applied to the items of a response
_fetch_competitors_domain(items, target) ==
  DedupeExclude(ItemDomains(items), Lower(PayloadTarget(target)), {})

\* a slip: the slice bound of the suggestions list, max(1, n)
SelectCompetitors_AtLeastOne(found, target, max_c) ==
  PySlicePrefix(SelectSeq(found, LAMBDA c : c # target), Max(1, max_c))

\* competitors = [c for c in competitors if c != target][:max_competitors]
SelectCompetitors(found, target, max_c) ==
  PySlicePrefix(SelectSeq(found, LAMBDA c : c # target), max_c)

\* ------------------------------------------------------------ aggregation
\* position of kw in the dict agg (kept in insertion order), 0 if absent
AggIndex(agg, kw) ==
  IF \E i \in 1..Len(agg) : agg[i].keyword = kw
  THEN CHOOSE i \in 1..Len(agg) : agg[i].keyword = kw
  ELSE 0

\* it.get("keyword") or (it.get("keyword_data") or {}).get("keyword") or ""
KeywordValue(it) == Or(Or(it.keyword, it.kd_keyword), JStr(<<>>))

\* a slip: the keyword text is used as received
ItemKeyword_NoStrip(kwv) == kwv[2]

\* kw = (...).strip()
ItemKeyword(kwv) == Strip(kwv[2])

\* a slip: a later record overwrites the values of an earlier one
MergeEntry_LastWins(e, vol, cpc, comp_val) ==
  [e EXCEPT !.search_volume = vol, !.cpc = cpc, !.competition = comp_val]

\* a slip: the search_volume of the first record is kept
MergeEntry_FirstVolume(e, vol, cpc, comp_val) ==
  [e EXCEPT !.cpc = Max(@, cpc), !.competition = Max(@, comp_val)]

\* the else branch of "if kw not in agg": the running maxima
MergeEntry(e, vol, cpc, comp_val) ==
  [e EXCEPT !.search_volume = Max(@, vol),
            !.cpc = Max(@, cpc),
            !.competition = Max(@, comp_val)]

\* a slip: the competitor is appended at every sighting
AddCompetitor_Always(cs, comp) == Append(cs, comp)

\* a slip: the list is replaced by the competitor
AddCompetitor_Replaces(cs, comp) == <<comp>>

\* if comp not in agg[kw]["competitors"]: agg[kw]["competitors"].append(comp)
AddCompetitor(cs, comp) == IF InSeq(comp, cs) THEN cs ELSE Append(cs, comp)

\* the body of "for it in items" for one item; st = [raised, agg]
ProcessItem(st, it, comp) ==
  IF st.raised THEN st
  ELSE LET kwv == KeywordValue(it) IN
  IF kwv[1] # "str" THEN [st EXCEPT !.raised = TRUE]
  ELSE LET kw == ItemKeyword(kwv) IN
  IF kw = <<>> THEN st
  ELSE IF Raises(it.search_volume) \/ Raises(it.cpc) \/ Raises(it.competition)
  THEN [st EXCEPT !.raised = TRUE]
  ELSE
    LET vol == NumOr0(it.search_volume)
        cpc == NumOr0(it.cpc)
        comp_val == NumOr0(it.competition)
        i == AggIndex(st.agg, kw)
        agg1 ==
          IF i = 0
          THEN Append(st.agg, [keyword |-> kw, search_volume |-> vol,
                               cpc |-> cpc, competition |-> comp_val,
                               competitors |-> <<>>])
          ELSE [st.agg EXCEPT ![i] = MergeEntry(@, vol, cpc, comp_val)]
        j == IF i = 0 THEN Len(agg1) ELSE i
    IN [st EXCEPT !.agg = [agg1 EXCEPT ![j].competitors = AddCompetitor(@, comp)]]

\* "for it in items" over one competitor's items
RECURSIVE ProcessItems(_, _, _)
ProcessItems(st, items, comp) ==
  IF items = <<>> THEN st
  ELSE ProcessItems(ProcessItem(st, Head(items), comp), Tail(items), comp)

\* ",".join(names)
RECURSIVE JoinComma(_)
JoinComma(names) ==
  IF names = <<>> THEN <<>>
  ELSE IF Len(names) = 1 THEN Head(names)
  ELSE Head(names) \o <<",">> \o JoinComma(Tail(names))

\* a slip: the score computed from the rounded cpc
Opportunity_ScoreFromRounded(v) ==
  [keyword |-> v.keyword,
   search_volume |-> v.search_volume,
   cpc |-> Round4(v.cpc),
   competition |-> Round4(v.competition),
   competitor_count |-> Len(v.competitors),
   example_competitors |->
     JoinComma(PySlicePrefix(v.competitors, ExampleCompetitors)),
   score |-> Round4(v.search_volume * (One + Round4(v.cpc)))]

\* a slip: one competitor more is listed
Opportunity_SixExamples(v) ==
  [keyword |-> v.keyword,
   search_volume |-> v.search_volume,
   cpc |-> Round4(v.cpc),
   competition |-> Round4(v.competition),
   competitor_count |-> Len(v.competitors),
   example_competitors |->
     JoinComma(PySlicePrefix(v.competitors, ExampleCompetitors + 1)),
   score |-> Round4(v.search_volume * (One + v.cpc))]

\* one opportunity record of "for kw, v in agg.items()"
Opportunity(v) ==
  [keyword |-> v.keyword,
   search_volume |-> v.search_volume,
   cpc |-> Round4(v.cpc),
   competition |-> Round4(v.competition),
   competitor_count |-> Len(v.competitors),
   example_competitors |->
     JoinComma(PySlicePrefix(v.competitors, ExampleCompetitors)),
   score |-> Round4(v.search_volume * (One + v.cpc))]

\* list.sort(key=score, reverse=True) is stable: x goes behind every record
\* already placed whose score is at least x's
\* a slip: the comparison of an ascending sort
RECURSIVE InsertDesc_Ascending(_, _)
InsertDesc_Ascending(x, sorted) ==
  IF sorted = <<>> THEN <<x>>
  ELSE IF Head(sorted).score <= x.score
       THEN <<Head(sorted)>> \o InsertDesc_Ascending(x, Tail(sorted))
       ELSE <<x>> \o sorted

RECURSIVE InsertDesc(_, _)
InsertDesc(x, sorted) ==
  IF sorted = <<>> THEN <<x>>
  ELSE IF Head(sorted).score >= x.score
       THEN <<Head(sorted)>> \o InsertDesc(x, Tail(sorted))
       ELSE <<x>> \o sorted

RECURSIVE SortDesc(_, _)
SortDesc(todo, sorted) ==
  IF todo = <<>> THEN sorted
  ELSE SortDesc(Tail(todo), InsertDesc(Head(todo), sorted))

\* a slip: the sorted list cut to its first two records
Opportunities_Truncated(agg) ==
  PySlicePrefix(SortDesc([i \in 1..Len(agg) |-> Opportunity(agg[i])], <<>>), 2)

\* opportunities, built from agg and sorted
Opportunities(agg) ==
  SortDesc([i \in 1..Len(agg) |-> Opportunity(agg[i])], <<>>)

\* ----------------------------------------------------------------- inputs
\* the domain argument: four that are empty once the scheme and the blanks
\* are gone, two that name a site, one that urlparse rejects
Domains ==
  { <<>>, <<" ">>, <<"https://">>, <<"http://", " ">>,
    <<"www.", "a">>, <<"https://", "www.", "A", "/", "p">>,
    <<"http://", "[">> }

\* the environment: which of the credentials variables are set
Envs ==
  { [DATAFORSEO_USERNAME |-> FALSE, DATAFORSEO_API_KEY |-> FALSE,
     DATAFORSEO_API_SECRET |-> FALSE],
    [DATAFORSEO_USERNAME |-> FALSE, DATAFORSEO_API_KEY |-> FALSE,
     DATAFORSEO_API_SECRET |-> TRUE],
    [DATAFORSEO_USERNAME |-> TRUE, DATAFORSEO_API_KEY |-> FALSE,
     DATAFORSEO_API_SECRET |-> TRUE] }

\* the max_competitors and gap_limit arguments
MaxCompetitorsArgs == {-1, 0, 2, 5}
GapLimitArgs == {-1, 300}

\* the "domain" values of the items of a competitors_domain response
DiscoveryItems ==
  { <<>>,
    <<JStr(<<"a">>), JStr(<<"A">>)>>,
    <<JStr(<<" ", "B">>), JStr(<<"b">>), JNone, JStr(<<"a">>), JStr(<<"c">>)>>,
    <<JStr(<<"b">>), JStr(<<"c">>), JStr(<<"d">>), JStr(<<"e">>),
      JStr(<<"f">>)>> }

\* one item of a domain_intersection response
Item(kw, kdkw, vol, cpc, comp) ==
  [keyword |-> kw, kd_keyword |-> kdkw, search_volume |-> vol, cpc |-> cpc,
   competition |-> comp]

Items ==
  { Item(JNone, JStr(<<"k">>), JNum(500), JNum(120000), JNum(30000)),
    Item(JNone, JStr(<<" ", "k", " ">>), JNum(800), JNum(90000), JNum(50000)),
    Item(JStr(<<"K">>), JStr(<<"m">>), JNum(303), JNum(123456), JNum(12344)),
    Item(JNone, JStr(<<"m">>), JNone, JNone, JNone),
    Item(JNone, JStr(<<" ">>), JNum(900), JStr(<<"x">>), JNone),
    Item(JNone, JStr(<<"k">>), JStr(<<"x">>), JNum(10000), JNone) }

SeqsUpTo(S, n) == UNION { [1..k -> S] : k \in 0..n }

\* number of items of the gap responses received so far
RECURSIVE ItemsSoFar(_)
ItemsSoFar(f) ==
  IF f = <<>> THEN 0 ELSE Len(Head(f).items) + ItemsSoFar(Tail(f))

\* ------------------------------------------------------------------ state
VARIABLES
  pc,               \* where fetch_keyword_opportunities_impl stands
  env,              \* the credentials variables of the environment
  domain,           \* argument
  max_competitors,  \* argument, then the clamped value
  gap_limit,        \* argument, then the clamped value
  target,           \* local
  competitors,      \* local
  comp_i,           \* position of "for comp in competitors"
  agg,              \* local dict, in insertion order
  result,           \* the returned dict
  calls,            \* the outbound HTTP requests made, in order
  fetched,          \* the gap responses received, in order
  discovery,        \* the competitors_domain response received
  args,             \* max_competitors and gap_limit as the caller gave them
  request,          \* the body of the POST /keyword-opportunities request
  response,         \* the response of the route
  html_artifacts,   \* table html_artifacts
  html_calls,       \* the writeHTML call of each caller
  strategies,       \* table strategies
  strategy_calls,   \* the createStrategy or edit-section call of each caller
  keyword_ideas,    \* table keyword_ideas
  keyword_call,     \* the addKeyword call under way or just ended
  image             \* the generate_image call under way or just ended

\* the state of fetch_keyword_opportunities_impl
implVars ==
  <<pc, env, domain, max_competitors, gap_limit, target, competitors, comp_i,
    agg, result, calls, fetched, discovery, args>>

\* the state of keyword_opportunities_route
routeVars == <<request, response>>

\* the state of writeHTML
htmlVars == <<html_artifacts, html_calls>>

\* the state of createStrategy
strategyVars == <<strategies, strategy_calls>>

\* the state of addKeyword
keywordVars == <<keyword_ideas, keyword_call>>

\* the state of generate_image
imageVars == <<image>>

\* the state of the database and image tools
toolVars == <<htmlVars, strategyVars, keywordVars, imageVars>>

\* the state outside fetch_keyword_opportunities_impl
outside == <<routeVars, toolVars>>

\* the state outside writeHTML, createStrategy, addKeyword, generate_image
notHtml == <<implVars, routeVars, strategyVars, keywordVars, imageVars>>
notStrategy == <<implVars, routeVars, htmlVars, keywordVars, imageVars>>
notKeyword == <<implVars, routeVars, htmlVars, strategyVars, imageVars>>
notImage == <<implVars, routeVars, htmlVars, strategyVars, keywordVars>>

vars == <<implVars, outside>>

NoDiscovery == [state |-> "none", items |-> <<>>]
NoRequest == [kind |-> "none"]
NoResponse == [status |-> 0]

\* the callers of writeHTML
Writers == 1..NumWriters

\* the callers of createStrategy
Creators == 1..NumCreators

\* a caller that has not called yet
NoCall == [pc |-> "idle"]

\* no request is being handled by the route
RouteIdle == request = NoRequest /\ response = NoResponse

\* html_artifacts is empty and nobody has called writeHTML
HtmlIdle ==
  /\ html_artifacts = {}
  /\ html_calls = [w \in Writers |-> NoCall]

\* strategies is empty and nobody has called createStrategy
StrategyIdle ==
  /\ strategies = {}
  /\ strategy_calls = [w \in Creators |-> NoCall]

\* keyword_ideas is empty and addKeyword has not been called
KeywordIdle ==
  /\ keyword_ideas = {}
  /\ keyword_call = NoCall

\* generate_image has not been called
ImageIdle == image = NoCall

ToolsIdle == HtmlIdle /\ StrategyIdle /\ KeywordIdle /\ ImageIdle

NoResult == [pending |-> TRUE]

Result(opps, used, err) ==
  [opportunities |-> opps, competitors_used |-> used, error |-> err]

\* requests.post of _fetch_competitors_domain
CompetitorsCall(t) ==
  [endpoint |-> "competitors_domain/live", target1 |-> t, target2 |-> <<>>,
   limit |-> 50]

\* requests.post of _fetch_domain_intersection_gap
GapCall(comp, t, limit) ==
  [endpoint |-> "domain_intersection/live", target1 |-> comp, target2 |-> t,
   limit |-> limit]

Init ==
  /\ pc = "start"
  /\ env \in Envs
  /\ domain \in Domains
  /\ max_competitors \in MaxCompetitorsArgs
  /\ gap_limit \in GapLimitArgs
  /\ target = <<>>
  /\ competitors = <<>>
  /\ comp_i = 0
  /\ agg = <<>>
  /\ result = NoResult
  /\ calls = <<>>
  /\ fetched = <<>>
  /\ discovery = NoDiscovery
  /\ args = [max_competitors |-> max_competitors, gap_limit |-> gap_limit]
  /\ RouteIdle
  /\ ToolsIdle

\* return ...: the function returns r
Return(r) ==
  /\ pc' = "done"
  /\ result' = r

\* a slip: the error is returned with what the run had so far
ReturnError_Partial ==
  Return(Result(Opportunities(agg), competitors, "str(e)"))

\* the top-level "except Exception as e"
ReturnError == Return(Result(<<>>, <<>>, "str(e)"))

\* a slip: the gap limit passed on as given
ClampGapLimit_AsGiven(n) == n

\* gap_limit = min(gap_limit, MAX_OPPORTUNITIES_KEYWORDS_PER_COMPETITOR)
ClampGapLimit(n) == Min(n, MAX_OPPORTUNITIES_KEYWORDS_PER_COMPETITOR)

\* Entry of fetch_keyword_opportunities_impl, up to the request of
\* _fetch_competitors_domain.
Invoke ==
  /\ pc = "start"
  /\ LET t == TargetOf(domain) IN
     IF t = Raise
     THEN /\ pc' = "raised"
          /\ UNCHANGED <<result, target, max_competitors, gap_limit, calls>>
     ELSE IF t = <<>>
     THEN /\ Return(Result(<<>>, <<>>, "Invalid or missing domain"))
          /\ target' = t
          /\ UNCHANGED <<max_competitors, gap_limit, calls>>
     ELSE IF _dataforseo_basic_auth(env) = ""
     THEN /\ Return(Result(<<>>, <<>>, "DATAFORSEO credentials not set"))
          /\ target' = t
          /\ UNCHANGED <<max_competitors, gap_limit, calls>>
     ELSE /\ target' = t
          /\ max_competitors' = Min(max_competitors, MAX_OPPORTUNITIES_COMPETITORS)
          /\ gap_limit' = ClampGapLimit(gap_limit)
          /\ IF PayloadTarget(t) = Raise
             THEN ReturnError /\ UNCHANGED calls
             ELSE /\ pc' = "competitors"
                  /\ calls' = Append(calls, CompetitorsCall(PayloadTarget(t)))
                  /\ UNCHANGED result
  /\ UNCHANGED <<env, domain, competitors, comp_i, agg, fetched, discovery,
                 args, outside>>

\* _dataforseo_labs_post raises in _fetch_competitors_domain (HTTP error,
\* timeout, a body that is not the expected JSON): the top-level except.
CompetitorsFail ==
  /\ pc = "competitors"
  /\ ReturnError
  /\ discovery' = [state |-> "failed", items |-> <<>>]
  /\ UNCHANGED <<env, domain, max_competitors, gap_limit, target, competitors,
                 comp_i, agg, calls, fetched, args, outside>>

\* The competitors_domain response arrives: the rest of
\* _fetch_competitors_domain, the selection, and the first gap request.
CompetitorsReply ==
  /\ pc = "competitors"
  /\ \E items \in DiscoveryItems :
       LET cs == SelectCompetitors(_fetch_competitors_domain(items, target),
                                   target, max_competitors)
       IN /\ competitors' = cs
          /\ discovery' = [state |-> "ok", items |-> items]
          /\ IF cs = <<>>
             THEN /\ Return(Result(<<>>, <<>>, None))
                  /\ UNCHANGED <<comp_i, calls>>
             ELSE /\ pc' = "gap"
                  /\ comp_i' = 1
                  /\ calls' = Append(calls, GapCall(cs[1], target, gap_limit))
                  /\ UNCHANGED result
  /\ agg' = <<>>
  /\ UNCHANGED <<env, domain, max_competitors, gap_limit, target, fetched, args,
                 outside>>

\* a slip: the loop asks for the same competitor again
NextCompetitor_SameAgain(agg1) ==
  IF comp_i < Len(competitors)
  THEN /\ comp_i' = comp_i + 1
       /\ calls' = Append(calls, GapCall(competitors[comp_i], target, gap_limit))
       /\ UNCHANGED <<pc, result>>
  ELSE /\ Return(Result(Opportunities(agg1), competitors, None))
       /\ UNCHANGED <<comp_i, calls>>

\* a slip: competitors_used lists the competitors whose fetch succeeded
NextCompetitor_UsedFetched(agg1) ==
  IF comp_i < Len(competitors)
  THEN /\ comp_i' = comp_i + 1
       /\ calls' = Append(calls, GapCall(competitors[comp_i + 1], target, gap_limit))
       /\ UNCHANGED <<pc, result>>
  ELSE /\ Return(Result(Opportunities(agg1),
                        SelectSeq(competitors, LAMBDA c :
                          \E n \in 1..Len(fetched') :
                            fetched'[n].comp = c /\ fetched'[n].ok),
                        None))
       /\ UNCHANGED <<comp_i, calls>>

\* after competitor comp_i: the next gap request, or the records, the sort
\* and the return
NextCompetitor(agg1) ==
  IF comp_i < Len(competitors)
  THEN /\ comp_i' = comp_i + 1
       /\ calls' = Append(calls, GapCall(competitors[comp_i + 1], target, gap_limit))
       /\ UNCHANGED <<pc, result>>
  ELSE /\ Return(Result(Opportunities(agg1), competitors, None))
       /\ UNCHANGED <<comp_i, calls>>

\* a slip: the failure of one gap fetch reaches the top-level except
GapFail_Aborts ==
  /\ pc = "gap"
  /\ fetched' = Append(fetched, [comp |-> competitors[comp_i], ok |-> FALSE,
                                  items |-> <<>>])
  /\ ReturnError
  /\ UNCHANGED <<env, domain, max_competitors, gap_limit, target, competitors,
                 comp_i, agg, calls, discovery, args, outside>>

\* _fetch_domain_intersection_gap raises: "except Exception ... continue"
GapFail ==
  /\ pc = "gap"
  /\ fetched' = Append(fetched, [comp |-> competitors[comp_i], ok |-> FALSE,
                                  items |-> <<>>])
  /\ agg' = agg
  /\ NextCompetitor(agg)
  /\ UNCHANGED <<env, domain, max_competitors, gap_limit, target, competitors,
                 discovery, args, outside>>

\* _fetch_domain_intersection_gap returns items: "for it in items"
GapReply ==
  /\ pc = "gap"
  /\ \E items \in SeqsUpTo(Items, MaxItems) :
       /\ ItemsSoFar(fetched) + Len(items) <= MaxRunItems
       /\ fetched' = Append(fetched, [comp |-> competitors[comp_i], ok |-> TRUE,
                                       items |-> items])
       /\ LET st == ProcessItems([raised |-> FALSE, agg |-> agg], items,
                                 competitors[comp_i])
          IN /\ agg' = st.agg
             /\ IF st.raised
                THEN ReturnError /\ UNCHANGED <<comp_i, calls>>
                ELSE NextCompetitor(st.agg)
  /\ UNCHANGED <<env, domain, max_competitors, gap_limit, target, competitors,
                 discovery, args, outside>>

Next == Invoke \/ CompetitorsFail \/ CompetitorsReply \/ GapFail \/ GapReply

Spec == Init /\ [][Next]_vars

\* the runs of one site with credentials set, for every max_competitors
MergeInit ==
  /\ Init
  /\ domain = <<"www.", "a">>
  /\ _dataforseo_basic_auth(env) # ""
  /\ gap_limit = 300

MergeSpec == MergeInit /\ [][Next]_vars

\* a run with max_competitors = -1 on a discovery of eight domains: seven
\* competitors
ManyCompetitors ==
  << <<"b">>, <<"c">>, <<"d">>, <<"e">>, <<"f">>, <<"g">>, <<"h">> >>

\* what the gap fetch of one competitor gave in such a run: a failure, or
\* one or two records
GapOutcomes ==
  { [ok |-> FALSE, items |-> <<>>],
    [ok |-> TRUE,
     items |-> <<Item(JNone, JStr(<<"k">>), JNum(500), JNum(120000), JNum(30000))>>],
    [ok |-> TRUE,
     items |-> <<Item(JNone, JStr(<<"m">>), JNone, JNone, JNone),
                 Item(JNone, JStr(<<" ", "k", " ">>), JNum(800), JNum(90000),
                      JNum(50000))>>] }

\* the aggregate of the gap responses f: the loop "for comp in competitors"
RECURSIVE AggOfLoop(_, _)
AggOfLoop(f, a) ==
  IF f = <<>> THEN a
  ELSE AggOfLoop(Tail(f),
         IF Head(f).ok
         THEN ProcessItems([raised |-> FALSE, agg |-> a], Head(f).items,
                           Head(f).comp).agg
         ELSE a)

\* the loop over seven competitors has ended
LoopEndedInit ==
  /\ pc = "records"
  /\ env = [DATAFORSEO_USERNAME |-> TRUE, DATAFORSEO_API_KEY |-> FALSE,
            DATAFORSEO_API_SECRET |-> TRUE]
  /\ domain = <<"www.", "a">>
  /\ target = <<"www.", "a">>
  /\ max_competitors = -1
  /\ gap_limit = MAX_OPPORTUNITIES_KEYWORDS_PER_COMPETITOR
  /\ args = [max_competitors |-> -1, gap_limit |-> 300]
  /\ competitors = ManyCompetitors
  /\ comp_i = Len(ManyCompetitors)
  /\ discovery = [state |-> "ok",
                  items |-> [i \in 1..(Len(ManyCompetitors) + 1) |->
                               IF i <= Len(ManyCompetitors)
                               THEN JStr(ManyCompetitors[i]) ELSE JStr(<<"i">>)]]
  /\ \E o \in [1..Len(ManyCompetitors) -> GapOutcomes] :
       fetched = [i \in 1..Len(ManyCompetitors) |->
                    [comp |-> ManyCompetitors[i], ok |-> o[i].ok,
                     items |-> o[i].items]]
  /\ agg = AggOfLoop(fetched, <<>>)
  /\ calls = <<CompetitorsCall(target)>>
             \o [i \in 1..Len(ManyCompetitors) |->
                   GapCall(ManyCompetitors[i], target, gap_limit)]
  /\ result = NoResult
  /\ RouteIdle
  /\ ToolsIdle

\* after the loop: the records, the sort and the return
BuildRecords ==
  /\ pc = "records"
  /\ Return(Result(Opportunities(agg), competitors, None))
  /\ UNCHANGED <<env, domain, max_competitors, gap_limit, target, competitors,
                 comp_i, agg, calls, fetched, discovery, args, outside>>

\* the runs of MergeSpec and the end of the runs over seven competitors
ExamplesNext == Next \/ BuildRecords

ExamplesSpec == (MergeInit \/ LoopEndedInit) /\ [][ExamplesNext]_vars

\* ------------------------------------------- POST /keyword-opportunities
\* a request body: text that is not JSON, a JSON array, or a JSON object
\* with its "domain", "target" and "location_code" members
Body(kind, d, t, loc) ==
  [kind |-> kind, domain |-> d, target |-> t, location_code |-> loc]

Requests ==
  { Body("not json", JNone, JNone, JNone),
    Body("array", JNone, JNone, JNone),
    Body("object", JNone, JNone, JNone),
    Body("object", JStr(<<" ">>), JNone, JNum(2124)),
    Body("object", JStr(<<" ">>), JStr(<<"www.", "a">>), JNone),
    Body("object", JNone, JStr(<<"https://", "www.", "A", "/", "p">>), JNone),
    Body("object", JStr(<<" ", "www.", "a", " ">>), JNone, JNum(2124)),
    Body("object", JStr(<<"http://", "[">>), JNone, JNone),
    Body("object", JStr(<<"www.", "a">>), JNone, JStr(<<"x">>)),
    Body("object", JNum(7), JNone, JNone) }

Response(status, body) == [status |-> status, body |-> body]

\* the status after the aggregator call: the except branch, then
\* "if result.get("error") and not result.get("opportunities")"
RouteStatus(raised, res) ==
  IF raised THEN 500
  ELSE IF res.error # None /\ res.error # "" /\ res.opportunities = <<>> THEN 502
  ELSE 200

RouteInit ==
  /\ pc = "route"
  /\ env \in Envs
  /\ request \in Requests
  /\ domain = <<>>
  /\ max_competitors = MAX_OPPORTUNITIES_COMPETITORS
  /\ gap_limit = MAX_OPPORTUNITIES_KEYWORDS_PER_COMPETITOR
  /\ target = <<>>
  /\ competitors = <<>>
  /\ comp_i = 0
  /\ agg = <<>>
  /\ result = NoResult
  /\ calls = <<>>
  /\ fetched = <<>>
  /\ discovery = NoDiscovery
  /\ args = [max_competitors |-> max_competitors, gap_limit |-> gap_limit]
  /\ response = NoResponse
  /\ ToolsIdle

\* keyword_opportunities_route up to the call of the aggregator.  An
\* exception outside the try blocks leaves the handler and the server
\* answers 500.
RouteReceive ==
  /\ pc = "route"
  /\ IF request.kind = "not json"
     THEN /\ response' = Response(400, "Invalid JSON")
          /\ pc' = "responded"
          /\ UNCHANGED domain
     ELSE IF request.kind # "object"
     THEN /\ response' = Response(500, "unhandled")
          /\ pc' = "responded"
          /\ UNCHANGED domain
     ELSE LET v == Or(Or(request.domain, request.target), JStr(<<>>)) IN
          IF v[1] # "str"
          THEN /\ response' = Response(500, "unhandled")
               /\ pc' = "responded"
               /\ UNCHANGED domain
          ELSE IF Strip(v[2]) = <<>>
          THEN /\ response' = Response(400, "Missing domain or target")
               /\ pc' = "responded"
               /\ UNCHANGED domain
          ELSE IF request.location_code[1] = "str"
          THEN /\ response' = Response(500, "unhandled")
               /\ pc' = "responded"
               /\ UNCHANGED domain
          ELSE /\ domain' = Strip(v[2])
               /\ pc' = "start"
               /\ UNCHANGED response
  /\ UNCHANGED <<env, max_competitors, gap_limit, target, competitors, comp_i,
                 agg, result, calls, fetched, discovery, args, request,
                 toolVars>>

\* keyword_opportunities_route after the call of the aggregator
RouteRespond ==
  /\ pc \in {"done", "raised"}
  /\ LET status == RouteStatus(pc = "raised", result) IN
     response' = Response(status,
                          IF status = 200 THEN result
                          ELSE IF status = 502 THEN result.error
                          ELSE "str(e)")
  /\ pc' = "responded"
  /\ UNCHANGED <<env, domain, max_competitors, gap_limit, target, competitors,
                 comp_i, agg, result, calls, fetched, discovery, args, request,
                 toolVars>>

RouteNext ==
  \/ RouteReceive \/ RouteRespond
  \/ Invoke \/ CompetitorsFail \/ CompetitorsReply \/ GapFail \/ GapReply

RouteSpec == RouteInit /\ [][RouteNext]_vars

\* ---------------------------------------------------------------- writeHTML
\* the arguments of writeHTML
HtmlClients == {1}
HtmlBlogs == {1, 2}
HtmlTexts == {"<p>"}

\* a slip: the WHERE clause without the blog
SelectMaxVersion_AnyBlog(rows, client_id, blog_id) ==
  LET vs == { r.version_number : r \in { x \in rows : x.client_id = client_id } }
  IN IF vs = {} THEN 0 ELSE CHOOSE v \in vs : \A u \in vs : u <= v

\* SELECT COALESCE(MAX(version_number), 0) FROM html_artifacts
\* WHERE client_id = :client_id AND blog_idea_id = :blog_id
SelectMaxVersion(rows, client_id, blog_id) ==
  LET vs == { r.version_number :
                r \in { x \in rows : x.client_id = client_id
                                      /\ x.blog_idea_id = blog_id } }
  IN IF vs = {} THEN 0 ELSE CHOOSE v \in vs : \A u \in vs : u <= v

\* the row of INSERT INTO html_artifacts, with the next serial id
HtmlRow(rows, c) ==
  [id |-> Cardinality(rows) + 1, client_id |-> c.client_id,
   blog_idea_id |-> c.blog_id, version_number |-> c.version_number,
   html |-> c.html]

\* writeHTML is called by w: get_db_session(); before and after record the
\* table as the call found it and as the call left it
HtmlCall(w) ==
  /\ html_calls[w].pc = "idle"
  /\ \E c \in HtmlClients, b \in HtmlBlogs, v \in 0..MaxVersion, h \in HtmlTexts :
       html_calls' = [html_calls EXCEPT ![w] =
         [pc |-> "select", client_id |-> c, blog_id |-> b,
          version_number |-> v, html |-> h, current_max_version |-> 0,
          before |-> html_artifacts, after |-> {}]]
  /\ UNCHANGED <<html_artifacts, notHtml>>

\* the SELECT of the current maximum version
HtmlSelect(w) ==
  /\ html_calls[w].pc = "select"
  /\ html_calls' = [html_calls EXCEPT
       ![w].pc = "insert",
       ![w].current_max_version =
         SelectMaxVersion(html_artifacts, html_calls[w].client_id,
                          html_calls[w].blog_id)]
  /\ UNCHANGED <<html_artifacts, notHtml>>

\* the version check, then INSERT and commit, or ValueError and rollback
HtmlInsert(w) ==
  /\ html_calls[w].pc = "insert"
  /\ LET c == html_calls[w]
         expected_version == c.current_max_version + 1
     IN IF c.version_number # expected_version
        THEN /\ html_calls' = [html_calls EXCEPT ![w].pc = "raised",
                                                  ![w].after = html_artifacts]
             /\ UNCHANGED html_artifacts
        ELSE /\ html_artifacts' = html_artifacts \cup {HtmlRow(html_artifacts, c)}
             /\ html_calls' = [html_calls EXCEPT ![w].pc = "returned",
                                                  ![w].after = html_artifacts']
  /\ UNCHANGED notHtml

\* the caller has the return value or the exception of its call
HtmlDone(w) ==
  /\ html_calls[w].pc \in {"returned", "raised"}
  /\ html_calls' = [html_calls EXCEPT ![w] = NoCall]
  /\ UNCHANGED <<html_artifacts, notHtml>>

\* no call of writeHTML is under way
NoHtmlCallRunning == \A w \in Writers : html_calls[w].pc = "idle"

\* fetch_keyword_opportunities_impl is not called
ImplIdle ==
  /\ pc = "unused"
  /\ env = [DATAFORSEO_USERNAME |-> FALSE, DATAFORSEO_API_KEY |-> FALSE,
            DATAFORSEO_API_SECRET |-> FALSE]
  /\ domain = <<>>
  /\ max_competitors = MAX_OPPORTUNITIES_COMPETITORS
  /\ gap_limit = MAX_OPPORTUNITIES_KEYWORDS_PER_COMPETITOR
  /\ target = <<>>
  /\ competitors = <<>>
  /\ comp_i = 0
  /\ agg = <<>>
  /\ result = NoResult
  /\ calls = <<>>
  /\ fetched = <<>>
  /\ discovery = NoDiscovery
  /\ args = [max_competitors |-> max_competitors, gap_limit |-> gap_limit]

HtmlInit ==
  /\ ImplIdle
  /\ RouteIdle
  /\ HtmlIdle
  /\ StrategyIdle
  /\ KeywordIdle
  /\ ImageIdle

\* calls of writeHTML made one after another
HtmlSeqNext ==
  \E w \in Writers :
    \/ NoHtmlCallRunning /\ HtmlCall(w)
    \/ HtmlSelect(w)
    \/ HtmlInsert(w)
    \/ HtmlDone(w)

HtmlSeqSpec == HtmlInit /\ [][HtmlSeqNext]_vars

\* html_artifacts is empty or holds version 1 of blog 1, written before
HtmlConcurrentInit ==
  /\ ImplIdle
  /\ RouteIdle
  /\ StrategyIdle
  /\ KeywordIdle
  /\ ImageIdle
  /\ html_artifacts \in
       { {}, {[id |-> 1, client_id |-> 1, blog_idea_id |-> 1,
               version_number |-> 1, html |-> "<p>"]} }
  /\ html_calls = [w \in Writers |-> NoCall]

\* concurrent calls of writeHTML, one of each caller: each caller in its own
\* session, the SELECT and the INSERT of a call being separate steps
HtmlNext ==
  \E w \in Writers :
    \/ HtmlCall(w)
    \/ HtmlSelect(w)
    \/ HtmlInsert(w)

HtmlSpec == HtmlConcurrentInit /\ [][HtmlNext]_vars

\* ----------------------------------------------------------- createStrategy
\* the keys of STRATEGY_SECTIONS, the section columns of strategies
STRATEGY_SECTIONS ==
  { "executive_summary", "section_1", "section_2", "section_3", "section_4",
    "section_5", "section_6", "section_7", "section_8", "section_9",
    "section_10", "section_11", "section_12", "section_13", "section_14",
    "appendix_a", "appendix_b" }

\* the section columns of a row inserted without them: NULL
BlankSections == [k \in STRATEGY_SECTIONS |-> None]

\* a row of strategies
StrategyRow(client_id, version_number, sections) ==
  [client_id |-> client_id, version_number |-> version_number,
   sections |-> sections]

\* the arguments of createStrategy: copy_from_version is None or a number
StrategyClients == {1, 2}
CopyFromVersions == {JNone} \cup { JNum(v) : v \in 0..MaxStrategies }

\* a strategy of client 1 whose sections were edited before
EditedStrategy ==
  StrategyRow(1, 1, [BlankSections EXCEPT !["executive_summary"] = "text",
                                          !["appendix_b"] = "text"])

\* the None of _get_strategy
NoRow == [client_id |-> None]

\* _get_strategy: the row of (client_id, version_number), None if there is none
_get_strategy(rows, client_id, version_number) ==
  LET found == { r \in rows : r.client_id = client_id
                              /\ r.version_number = version_number }
  IN IF found = {} THEN NoRow ELSE CHOOSE r \in found : TRUE

\* a slip: the WHERE clause without the client
_get_latest_strategy_version_AnyClient(rows, client_id) ==
  LET vs == { r.version_number : r \in rows }
  IN IF vs = {} THEN 0 ELSE CHOOSE v \in vs : \A u \in vs : u <= v

\* SELECT COALESCE(MAX(version_number), 0) FROM strategies
\* WHERE client_id = :client_id
_get_latest_strategy_version(rows, client_id) ==
  LET vs == { r.version_number : r \in { x \in rows : x.client_id = client_id } }
  IN IF vs = {} THEN 0 ELSE CHOOSE v \in vs : \A u \in vs : u <= v

\* a slip: the table without its UNIQUE constraint
UniqueViolation_Never(rows, row) == FALSE

\* UNIQUE(client_id, version_number) rejects the row
UniqueViolation(rows, row) ==
  \E r \in rows : r.client_id = row.client_id
                  /\ r.version_number = row.version_number

\* createStrategy is called by w: get_db_session(); before and after record
\* the table as the call found it and as the call left it
StrategyCall(w) ==
  /\ strategy_calls[w].pc = "idle"
  /\ Cardinality(strategies) < MaxStrategies
  /\ \E c \in StrategyClients, f \in CopyFromVersions :
       strategy_calls' = [strategy_calls EXCEPT ![w] =
         [pc |-> "latest", client_id |-> c, copy_from_version |-> f,
          current_max |-> 0, version_number |-> 0,
          before |-> strategies, after |-> {}]]
  /\ UNCHANGED <<strategies, notStrategy>>

\* current_max = _get_latest_strategy_version(client_id), in its own session
StrategyLatest(w) ==
  /\ strategy_calls[w].pc = "latest"
  /\ strategy_calls' = [strategy_calls EXCEPT
       ![w].pc = "insert",
       ![w].current_max =
         _get_latest_strategy_version(strategies, strategy_calls[w].client_id)]
  /\ UNCHANGED <<strategies, notStrategy>>

\* the rest of the call: the source row if copy_from_version is given, then
\* INSERT and commit; a missing source or a rejected INSERT raises after
\* rollback
StrategyInsert(w) ==
  /\ strategy_calls[w].pc = "insert"
  /\ LET c == strategy_calls[w]
         new_version == c.current_max + 1
         copies == c.copy_from_version # JNone
         source == IF copies
                   THEN _get_strategy(strategies, c.client_id, c.copy_from_version[2])
                   ELSE NoRow
         row == StrategyRow(c.client_id, new_version,
                            IF copies /\ source # NoRow
                            THEN [k \in STRATEGY_SECTIONS |-> source.sections[k]]
                            ELSE BlankSections)
     IN IF (copies /\ source = NoRow) \/ UniqueViolation(strategies, row)
        THEN /\ strategy_calls' = [strategy_calls EXCEPT
                  ![w].pc = "raised", ![w].after = strategies]
             /\ UNCHANGED strategies
        ELSE /\ strategies' = strategies \cup {row}
             /\ strategy_calls' = [strategy_calls EXCEPT
                  ![w].pc = "returned", ![w].version_number = new_version,
                  ![w].after = strategies']
  /\ UNCHANGED notStrategy

\* the caller has the return value or the exception of its call
StrategyDone(w) ==
  /\ strategy_calls[w].pc \in {"returned", "raised"}
  /\ strategy_calls' = [strategy_calls EXCEPT ![w] = NoCall]
  /\ UNCHANGED <<strategies, notStrategy>>

\* no call of createStrategy is under way
NoStrategyCallRunning == \A w \in Creators : strategy_calls[w].pc = "idle"

StrategyInit ==
  /\ ImplIdle
  /\ RouteIdle
  /\ HtmlIdle
  /\ KeywordIdle
  /\ ImageIdle
  /\ strategies \in {{}, {EditedStrategy}}
  /\ strategy_calls = [w \in Creators |-> NoCall]

\* calls of createStrategy made one after another
StrategySeqNext ==
  \E w \in Creators :
    \/ NoStrategyCallRunning /\ StrategyCall(w)
    \/ StrategyLatest(w)
    \/ StrategyInsert(w)
    \/ StrategyDone(w)

StrategySeqSpec == StrategyInit /\ [][StrategySeqNext]_vars

\* concurrent calls of createStrategy, one of each caller: the read of the
\* latest version, in its own session, and the INSERT are separate steps
StrategyNext ==
  \E w \in Creators :
    \/ StrategyCall(w)
    \/ StrategyLatest(w)
    \/ StrategyInsert(w)

StrategySpec == StrategyInit /\ [][StrategyNext]_vars

\* ------------------------------------------------- _update_strategy_section
\* the arguments of _update_strategy_section: two of the 17 keys and a key
\* that is none of them; version 0 is never stored
EditSectionKeys == {"executive_summary", "section_14", "section_15"}
EditContents == {"new"}
EditVersions == 0..2

\* a slip: the WHERE clause without the version
UpdatedRows_EveryVersion(rows, client_id, version_number, section_key, content) ==
  { IF r.client_id = client_id
    THEN [r EXCEPT !.sections[section_key] = content]
    ELSE r : r \in rows }

\* UPDATE strategies SET {section_key} = :content, updated_at = NOW()
\* WHERE client_id = :client_id AND version_number = :version_number
\* (updated_at is not part of the rows of the model)
UpdatedRows(rows, client_id, version_number, section_key, content) ==
  { IF r.client_id = client_id /\ r.version_number = version_number
    THEN [r EXCEPT !.sections[section_key] = content]
    ELSE r : r \in rows }

\* _update_strategy_section, called by w through an editStrategy* tool or
\* directly: the key check, _get_strategy, then UPDATE and commit; before
\* and after record the table as the call found it and as the call left it
EditSection(w) ==
  /\ strategy_calls[w].pc = "idle"
  /\ \E c \in StrategyClients, v \in EditVersions, k \in EditSectionKeys,
        t \in EditContents :
       LET raises == \/ k \notin STRATEGY_SECTIONS
                     \/ _get_strategy(strategies, c, v) = NoRow
       IN /\ strategies' = IF raises THEN strategies
                           ELSE UpdatedRows(strategies, c, v, k, t)
          /\ strategy_calls' = [strategy_calls EXCEPT ![w] =
               [pc |-> IF raises THEN "raised" ELSE "returned",
                client_id |-> c, version_number |-> v, section_key |-> k,
                content |-> t, before |-> strategies, after |-> strategies']]
  /\ UNCHANGED notStrategy

\* the tables the edits start from: none, one edited strategy, and two
\* clients with three strategies
StrategyEditInit ==
  /\ ImplIdle
  /\ RouteIdle
  /\ HtmlIdle
  /\ KeywordIdle
  /\ ImageIdle
  /\ strategies \in
       { {}, {EditedStrategy},
         {EditedStrategy, StrategyRow(1, 2, EditedStrategy.sections),
          StrategyRow(2, 1, BlankSections)} }
  /\ strategy_calls = [w \in Creators |-> NoCall]

\* edit-section calls made one after another
StrategyEditNext ==
  \E w \in Creators :
    \/ NoStrategyCallRunning /\ EditSection(w)
    \/ StrategyDone(w)

StrategyEditSpec == StrategyEditInit /\ [][StrategyEditNext]_vars

\* --------------------------------------------------------------- addKeyword
\* the arguments of addKeyword
KeywordClients == {1, 2}
KeywordArgs ==
  { <<>>, <<" ">>, <<"k">>, <<"K">>, <<" ", "k", " ">>, <<" ", "K">>, <<"b">> }

\* a slip: the WHERE clause without LOWER
KeywordMatches_CaseSensitive(rows, client_id, keyword) ==
  { r \in rows : r.client_id = client_id /\ r.keyword = keyword }

\* SELECT id FROM keyword_ideas
\* WHERE client_id = :client_id AND LOWER(keyword) = LOWER(:keyword)
KeywordMatches(rows, client_id, keyword) ==
  { r \in rows : r.client_id = client_id /\ Lower(r.keyword) = Lower(keyword) }

\* the row of INSERT INTO keyword_ideas ... RETURNING id, with the next
\* serial id
KeywordRow(rows, client_id, keyword) ==
  [id |-> Cardinality(rows) + 1, client_id |-> client_id, keyword |-> keyword]

\* the end of an addKeyword call
KeywordOutcome(pc_, client_id, arg, status, keyword_id, before) ==
  [pc |-> pc_, client_id |-> client_id, keyword |-> arg, status |-> status,
   keyword_id |-> keyword_id, before |-> before]

\* addKeyword(client_id, arg): strip, the empty check, the SELECT, then
\* "already_exists" with the id of the row fetchone() gives, or INSERT and
\* commit; an exception rolls back and is raised again
AddKeyword(client_id, arg) ==
  LET keyword == Strip(arg)
      existing == KeywordMatches(keyword_ideas, client_id, keyword)
  IN /\ IF keyword = <<>>
        THEN /\ keyword_call' = KeywordOutcome("raised", client_id, arg,
                                                "Failed to add keyword", 0,
                                                keyword_ideas)
             /\ UNCHANGED keyword_ideas
        ELSE IF existing # {}
        THEN /\ \E r \in existing :
                  keyword_call' = KeywordOutcome("returned", client_id, arg,
                                                 "already_exists", r.id,
                                                 keyword_ideas)
             /\ UNCHANGED keyword_ideas
        ELSE LET row == KeywordRow(keyword_ideas, client_id, keyword)
             IN /\ keyword_ideas' = keyword_ideas \cup {row}
                /\ keyword_call' = KeywordOutcome("returned", client_id, arg,
                                                   "success", row.id,
                                                   keyword_ideas)
     /\ UNCHANGED notKeyword

KeywordInit ==
  /\ ImplIdle
  /\ RouteIdle
  /\ HtmlIdle
  /\ StrategyIdle
  /\ ImageIdle
  /\ KeywordIdle

\* calls of addKeyword made one after another
KeywordNext == \E c \in KeywordClients, k \in KeywordArgs : AddKeyword(c, k)

KeywordSpec == KeywordInit /\ [][KeywordNext]_vars

\* ----------------------------------------------------------- generate_image
\* max_retries and base_delay (seconds) of the retry loop
max_retries == 3
base_delay == 1

\* _google_api_key, _s3_client and _aws_s3_bucket: set or not
ImageConfigs ==
  [_google_api_key : BOOLEAN, _s3_client : BOOLEAN, _aws_s3_bucket : BOOLEAN]

\* the filename argument
Filenames == { <<"a", ".png">>, <<"a", ".JPG">>, <<"a", ".gif">>, <<"a">> }

\* what response.json() gives after a 2xx answer
ImageResponses ==
  { "null", "no candidates", "no parts", "empty parts", "text part only",
    "data not base64", "image/png", "image without mimeType",
    "image with null mimeType" }

\* the responses that carry an image that decodes
ImageDecodes(r) ==
  r \in {"image/png", "image without mimeType", "image with null mimeType"}

\* the last token of the file name, lower-cased
Extension(filename) ==
  IF filename = <<>> THEN "" ELSE LowerTok(filename[Len(filename)])

\* content_type: the mimeType of the response, 'image/png' when the key is
\* absent, else by the extension of the file name
ContentType(r, filename) ==
  IF r \in {"image/png", "image without mimeType"} THEN "image/png"
  ELSE IF Extension(filename) \in {".jpg", ".jpeg"} THEN "image/jpeg"
  ELSE IF Extension(filename) = ".gif" THEN "image/gif"
  ELSE IF Extension(filename) = ".webp" THEN "image/webp"
  ELSE "image/png"

\* "if attempt < max_retries - 1": the failed attempt is followed by a sleep
SleepsAfter(attempt) == attempt < max_retries - 1

\* delay = base_delay * (2 ** attempt)
Delay(attempt) == base_delay * (2 ^ attempt)

\* generate_image(prompt, filename) is called: the three configuration
\* checks, then the first pass of the loop is about to post
ImageCall ==
  /\ image.pc = "idle"
  /\ \E cfg \in ImageConfigs, f \in Filenames :
       image' = [pc |-> IF cfg._google_api_key /\ cfg._s3_client
                           /\ cfg._aws_s3_bucket
                        THEN "post" ELSE "raised",
                 cause |-> IF cfg._google_api_key /\ cfg._s3_client
                              /\ cfg._aws_s3_bucket
                           THEN "" ELSE "configuration",
                 config |-> cfg, filename |-> f, attempt |-> 0, posts |-> 0,
                 sleeps |-> <<>>, result |-> "", content_type |-> "",
                 put_objects |-> 0]
  /\ UNCHANGED notImage

\* requests.post or raise_for_status or json() raises a RequestException:
\* sleep and go to the next attempt, or raise after the last one
ImagePostFails ==
  /\ image.pc = "post"
  /\ image' =
       IF SleepsAfter(image.attempt)
       THEN [image EXCEPT !.posts = @ + 1,
                          !.sleeps = Append(@, Delay(image.attempt)),
                          !.attempt = @ + 1]
       ELSE [image EXCEPT !.posts = @ + 1, !.pc = "raised",
                          !.cause = "attempts"]
  /\ UNCHANGED notImage

\* the post is answered: break, then the extraction of the image, up to
\* the call of put_object
ImagePostAnswered ==
  /\ image.pc = "post"
  /\ \E r \in ImageResponses :
       image' =
         IF ImageDecodes(r)
         THEN [image EXCEPT !.posts = @ + 1, !.result = r, !.pc = "upload",
                            !.content_type = ContentType(r, image.filename)]
         ELSE [image EXCEPT !.posts = @ + 1, !.result = r, !.pc = "raised",
                            !.cause = "response"]
  /\ UNCHANGED notImage

\* put_object succeeds: the dict with the url is returned
ImageUploaded ==
  /\ image.pc = "upload"
  /\ image' = [image EXCEPT !.put_objects = @ + 1, !.pc = "returned"]
  /\ UNCHANGED notImage

\* put_object raises: "Failed to upload image to S3"
ImageUploadFails ==
  /\ image.pc = "upload"
  /\ image' = [image EXCEPT !.put_objects = @ + 1, !.pc = "raised",
                             !.cause = "upload"]
  /\ UNCHANGED notImage

ImageInit ==
  /\ ImplIdle
  /\ RouteIdle
  /\ HtmlIdle
  /\ StrategyIdle
  /\ KeywordIdle
  /\ ImageIdle

ImageNext ==
  \/ ImageCall
  \/ ImagePostFails
  \/ ImagePostAnswered
  \/ ImageUploaded
  \/ ImageUploadFails

ImageSpec == ImageInit /\ [][ImageNext]_vars

\* ====================================================================
\* Properties
\* ====================================================================
\* the function has returned a result without error
ReturnedOk == pc = "done" /\ result.error = None

\* the function has returned the result of the gap-fetch loop
LoopResult == ReturnedOk /\ fetched # <<>>

\* the records of result["opportunities"]
Opps == { result.opportunities[n] : n \in 1..Len(result.opportunities) }

\* the outbound gap requests made so far
GapCalls == SelectSeq(calls, LAMBDA c : c.endpoint = "domain_intersection/live")

\* the keyword text of a fetched item after trimming, <<>> if it has none
KwText(it) ==
  LET v == KeywordValue(it) IN IF v[1] = "str" THEN Strip(v[2]) ELSE <<>>

\* the (competitor, item) pairs of the gap fetches that succeeded
FetchedRecords ==
  UNION { { [comp |-> fetched[n].comp, it |-> fetched[n].items[j]] :
              j \in 1..Len(fetched[n].items) } :
          n \in { m \in 1..Len(fetched) : fetched[m].ok } }

\* the fetched records that carry keyword kw
RecordsOf(kw) == { r \in FetchedRecords : KwText(r.it) = kw }

\* the largest element of a non-empty set of numbers
MaxOf(S) == CHOOSE x \in S : \A y \in S : y <= x

\* every field of the item has the type the provider documents
WellFormed(it) ==
  /\ KeywordValue(it)[1] = "str"
  /\ \A v \in {it.search_volume, it.cpc, it.competition} : v[1] # "str"

\* C1: for every max_competitors and every discovered competitor list, gap
\* fetches are issued for at most 3 competitors and competitors_used has at
\* most 3 entries.
C1_AtMostThreeCompetitors ==
  /\ Len(GapCalls) <= MAX_OPPORTUNITIES_COMPETITORS
  /\ pc = "done" => Len(result.competitors_used) <= MAX_OPPORTUNITIES_COMPETITORS

\* C2: every emitted record's competitor_count is the number of distinct
\* competitors whose successfully fetched records contained its keyword.
C2_CompetitorCount ==
  ReturnedOk =>
    \A o \in Opps :
      o.competitor_count = Cardinality({ r.comp : r \in RecordsOf(o.keyword) })

\* C2 witness: a record counted for 2 competitors, one of which listed the
\* keyword twice, in a run where another competitor's fetch failed.
C2_Witness ==
  /\ ReturnedOk
  /\ \E n \in 1..Len(fetched) : ~fetched[n].ok
  /\ \E o \in Opps :
       /\ o.competitor_count = 2
       /\ \E n \in 1..Len(fetched) :
            /\ Len(fetched[n].items) = 2
            /\ KwText(fetched[n].items[1]) = o.keyword
            /\ KwText(fetched[n].items[2]) = o.keyword

\* C3 as stated: the merged record carries the maximum search_volume, cpc
\* and competition seen over the records of its keyword.
C3_MaximaAsSeen ==
  ReturnedOk =>
    \A o \in Opps :
      /\ o.search_volume = MaxOf({ NumOr0(r.it.search_volume) : r \in RecordsOf(o.keyword) })
      /\ o.cpc = MaxOf({ NumOr0(r.it.cpc) : r \in RecordsOf(o.keyword) })
      /\ o.competition = MaxOf({ NumOr0(r.it.competition) : r \in RecordsOf(o.keyword) })

\* C3 amended: the merged record carries the maximum search_volume, and the
\* maximum cpc and the maximum competition each rounded to 4 decimal places,
\* each maximum taken independently over the records of its keyword.
C3_MaximaRounded ==
  ReturnedOk =>
    \A o \in Opps :
      /\ o.search_volume = MaxOf({ NumOr0(r.it.search_volume) : r \in RecordsOf(o.keyword) })
      /\ o.cpc = Round4(MaxOf({ NumOr0(r.it.cpc) : r \in RecordsOf(o.keyword) }))
      /\ o.competition =
           Round4(MaxOf({ NumOr0(r.it.competition) : r \in RecordsOf(o.keyword) }))

\* C3 witness: volumes 500 and 800 with cpc 1.2 and 0.9 from two competitors
\* give search_volume 800, cpc 1.2, competitor_count 2.
C3_Witness ==
  /\ ReturnedOk
  /\ \E o \in Opps :
       /\ o.search_volume = 800 /\ o.cpc = 120000 /\ o.competitor_count = 2
       /\ \E r1, r2 \in RecordsOf(o.keyword) :
            /\ r1.comp # r2.comp
            /\ NumOr0(r1.it.search_volume) = 500 /\ NumOr0(r1.it.cpc) = 120000
            /\ NumOr0(r2.it.search_volume) = 800 /\ NumOr0(r2.it.cpc) = 90000

\* C4 as stated: no two emitted records have keywords that are equal after
\* trimming and lower-casing.
C4_KeyedByLowerCase ==
  ReturnedOk =>
    \A o1, o2 \in Opps :
      Lower(Strip(o1.keyword)) = Lower(Strip(o2.keyword)) => o1 = o2

\* C4 amended: the aggregate is keyed by the whitespace-trimmed keyword with
\* its letter case kept: every emitted keyword is trimmed, fetched records
\* whose keywords are equal after trimming share one emitted record, and no
\* two emitted records have the same keyword.
C4_KeyedByTrimmed ==
  ReturnedOk =>
    /\ \A o \in Opps : Strip(o.keyword) = o.keyword
    /\ \A o1, o2 \in Opps : o1.keyword = o2.keyword => o1 = o2
    /\ \A r \in FetchedRecords :
         KwText(r.it) # <<>> =>
           Cardinality({ o \in Opps : o.keyword = KwText(r.it) }) = 1

\* C4 witness: "k" and " k " were fetched and share one record, while "K"
\* has a record of its own.
C4_Witness ==
  /\ ReturnedOk
  /\ \E r1, r2 \in FetchedRecords :
       /\ KeywordValue(r1.it) = JStr(<<"k">>)
       /\ KeywordValue(r2.it) = JStr(<<" ", "k", " ">>)
  /\ \E o1, o2 \in Opps : o1.keyword = <<"k">> /\ o2.keyword = <<"K">>

\* C5: the returned records are ordered by score descending.
C5_SortedByScore ==
  pc = "done" =>
    \A n \in 1..(Len(result.opportunities) - 1) :
      result.opportunities[n].score >= result.opportunities[n + 1].score

\* C5 witness: a keyword first seen later than another one is returned
\* before it because its score is higher.
C5_Witness ==
  /\ ReturnedOk
  /\ Len(agg) >= 2
  /\ result.opportunities[1].keyword = agg[2].keyword
  /\ result.opportunities[1].score > result.opportunities[2].score

\* C6: on a successful run the list is not truncated: its keywords are
\* exactly the non-empty trimmed keywords of the successfully fetched
\* records, one record each.
C6_NoTruncation ==
  LoopResult =>
    /\ { o.keyword : o \in Opps } = { KwText(r.it) : r \in FetchedRecords } \ {<<>>}
    /\ Len(result.opportunities) = Cardinality({ o.keyword : o \in Opps })
    /\ Len(result.opportunities) = Len(agg)

\* C6 witness: three records were fetched, one with a blank keyword and two
\* with different keywords, and exactly the two keywords were returned.
C6_Witness ==
  /\ LoopResult
  /\ Cardinality(FetchedRecords) = 3
  /\ \E r \in FetchedRecords : KwText(r.it) = <<>>
  /\ Len(result.opportunities) = 2

\* the aggregate built from the gap responses f, failed ones left out
RECURSIVE AggOfSucceeded(_, _)
AggOfSucceeded(f, st) ==
  IF f = <<>> THEN st.agg
  ELSE AggOfSucceeded(Tail(f),
         IF Head(f).ok THEN ProcessItems(st, Head(f).items, Head(f).comp) ELSE st)

C8_NeverRaises ==
  /\ pc # "raised"
  /\ (pc = "done" /\ result.error # None) =>
       result.opportunities = <<>> /\ result.competitors_used = <<>>

\* neither DATAFORSEO_USERNAME nor DATAFORSEO_API_KEY is set: there is no
\* user name to authenticate with
CredentialsAbsent == ~env.DATAFORSEO_USERNAME /\ ~env.DATAFORSEO_API_KEY

\* C9 as stated: without credentials the function returns empty lists with
\* the credentials error, and no outbound call is made.
C9_CredentialsError ==
  (pc = "done" /\ CredentialsAbsent) =>
    /\ result = Result(<<>>, <<>>, "DATAFORSEO credentials not set")
    /\ calls = <<>>

\* C9 amended: without credentials no outbound call is made in the run and a
\* returned result has empty lists; its error is the credentials error when
\* the domain normalizes to a non-empty target, and the domain error when
\* it does not.
C9_CredentialsErrorAfterDomain ==
  CredentialsAbsent =>
    /\ calls = <<>>
    /\ pc = "done" =>
         result = Result(<<>>, <<>>,
                         IF target = <<>> THEN "Invalid or missing domain"
                         ELSE "DATAFORSEO credentials not set")

\* C9 witness: a run with a usable domain and no credentials has returned
\* the credentials error.
C9_Witness ==
  /\ pc = "done"
  /\ CredentialsAbsent
  /\ target # <<>>
  /\ result.error = "DATAFORSEO credentials not set"
  /\ calls = <<>>

\* the domain is empty once the scheme is stripped and the blanks trimmed
EmptyAfterNormalization(d) ==
  Strip(Remove(Remove(d, "https://"), "http://")) = <<>>

\* C10: a domain that is empty after normalization gives empty lists with
\* the domain error and no outbound call, with or without credentials.
C10_EmptyDomain ==
  (EmptyAfterNormalization(domain) /\ pc # "start") =>
    /\ pc = "done"
    /\ result = Result(<<>>, <<>>, "Invalid or missing domain")
    /\ calls = <<>>

\* C10 witness: a scheme followed by a blank, without credentials, has
\* returned the domain error.
C10_Witness ==
  /\ pc = "done"
  /\ domain = <<"http://", " ">>
  /\ CredentialsAbsent
  /\ result.error = "Invalid or missing domain"
  /\ calls = <<>>

\* the domains of the discovery response other than the target
OtherDomains ==
  { Lower(Strip(discovery.items[n][2])) :
      n \in { m \in 1..Len(discovery.items) :
                Truthy(discovery.items[m]) /\ discovery.items[m][1] = "str" } }
    \ {target}

\* C11: when the discovery call returned no competitor other than the
\* target, or max_competitors is 0, the competitor set is empty, and with an
\* empty competitor set the result is empty lists with error None and no gap
\* fetch is issued.
C11_EmptyCompetitorSet ==
  discovery.state = "ok" =>
    /\ (OtherDomains = {} \/ args.max_competitors = 0) => competitors = <<>>
    /\ competitors = <<>> =>
         /\ pc = "done"
         /\ result = Result(<<>>, <<>>, None)
         /\ GapCalls = <<>>

\* C11 witness: the discovery call listed other domains, max_competitors
\* was 0, and the run returned the empty result without error.
C11_Witness ==
  /\ discovery.state = "ok"
  /\ OtherDomains # {}
  /\ args.max_competitors = 0
  /\ pc = "done"
  /\ result = Result(<<>>, <<>>, None)
  /\ Len(calls) = 1

\* the domain with scheme, path and "www." prefix stripped, lower-cased
CanonicalDomain(d) ==
  LET x == Lower(Strip(Remove(Remove(d, "https://"), "http://")))
      host == SubSeq(x, 1, FirstSlash(x, 1) - 1)
  IN IF host # <<>> /\ Head(host) = "www." THEN Tail(host) ELSE host

\* C12: for every form of the domain input the target of the discovery
\* call, of every gap call and of the exclusion from the competitor set is
\* the domain with scheme and "www." prefix stripped, lower-cased.
C12_TargetCanonical ==
  pc \notin {"start", "raised"} =>
    /\ target = CanonicalDomain(domain)
    /\ \A n \in 1..Len(calls) :
         IF calls[n].endpoint = "competitors_domain/live"
         THEN calls[n].target1 = CanonicalDomain(domain)
         ELSE calls[n].target2 = CanonicalDomain(domain)
    /\ \A n \in 1..Len(competitors) : competitors[n] # CanonicalDomain(domain)

\* C15: the limit of every gap request is at most 250: a larger gap_limit is
\* reduced to 250, a smaller one is sent as given, and a larger one does not
\* make the run fail.
C15_GapLimitClamped ==
  /\ \A n \in 1..Len(GapCalls) :
       /\ GapCalls[n].limit <= MAX_OPPORTUNITIES_KEYWORDS_PER_COMPETITOR
       /\ GapCalls[n].limit =
            IF args.gap_limit > MAX_OPPORTUNITIES_KEYWORDS_PER_COMPETITOR
            THEN MAX_OPPORTUNITIES_KEYWORDS_PER_COMPETITOR
            ELSE args.gap_limit
  /\ (pc = "done" /\ target # <<>> /\ ~CredentialsAbsent) => calls # <<>>

\* C15 witness: the caller asked for 300 and a gap request went out with 250.
C15_Witness ==
  /\ args.gap_limit = 300
  /\ GapCalls # <<>>
  /\ GapCalls[1].limit = 250

\* the largest search_volume and cpc of the fetched records of keyword kw
MaxVolume(kw) == MaxOf({ NumOr0(r.it.search_volume) : r \in RecordsOf(kw) })
MaxCpc(kw) == MaxOf({ NumOr0(r.it.cpc) : r \in RecordsOf(kw) })

\* C16 as stated: every emitted score equals search_volume * (1 + cpc) of the
\* merged search_volume and the merged cpc, absent values counted as 0.
C16_ScoreExact ==
  ReturnedOk =>
    \A o \in Opps : o.score = MaxVolume(o.keyword) * (One + MaxCpc(o.keyword))

\* C16 amended: every emitted score equals search_volume * (1 + cpc) of the
\* merged search_volume and the merged (unrounded) cpc, rounded to 4 decimal
\* places, absent values counted as 0.
C16_ScoreRounded ==
  ReturnedOk =>
    \A o \in Opps :
      o.score = Round4(MaxVolume(o.keyword) * (One + MaxCpc(o.keyword)))

\* C16 witness: one record whose score differs from the score its emitted
\* (rounded) cpc would give, and one whose values were all absent and whose
\* score is 0.
C16_Witness ==
  /\ ReturnedOk
  /\ \E o \in Opps : o.score # Round4(o.search_volume * (One + o.cpc))
  /\ \E o \in Opps :
       /\ \A r \in RecordsOf(o.keyword) :
            r.it.search_volume = JNone /\ r.it.cpc = JNone
       /\ o.score = 0

\* a JSON member that is a text with something other than blanks in it
NonBlank(v) == v[1] = "str" /\ Strip(v[2]) # <<>>

\* the aggregator returned an error and no opportunities
ErrorResult ==
  /\ result # NoResult
  /\ result.error # None
  /\ result.opportunities = <<>>

\* C13 as stated: not JSON gives 400; neither a non-blank domain nor a
\* non-blank target gives 400; an aggregator error with no opportunities
\* gives 502; every other request gives 200 with the result as the body.
C13_StatusMapping ==
  pc = "responded" =>
    /\ response.status =
         IF request.kind = "not json" THEN 400
         ELSE IF ~NonBlank(request.domain) /\ ~NonBlank(request.target) THEN 400
         ELSE IF ErrorResult THEN 502
         ELSE 200
    /\ response.status = 200 => response.body = result

\* the member the route reads: "domain" if it is truthy, else "target"
Chosen == IF Truthy(request.domain) THEN request.domain ELSE request.target

\* the handling of the request raises: the body is no object, the chosen
\* member is no text, location_code is a text that is no number, or the
\* aggregator raised
HandlingRaises ==
  \/ request.kind = "array"
  \/ Truthy(Chosen) /\ Chosen[1] # "str"
  \/ NonBlank(Chosen) /\ request.location_code[1] = "str"
  \/ NonBlank(Chosen) /\ TargetOf(Strip(Chosen[2])) = Raise

\* the mapping of the code: not JSON gives 400; a request whose handling raises
\* gives 500; a JSON object whose chosen member (domain if truthy, else target) is
\* absent or blank gives 400; an aggregator error with no opportunities
\* gives 502; every other request gives 200 with the result as the body.
RouteStatusOfRequest ==
  pc = "responded" =>
    response.status =
      IF request.kind = "not json" THEN 400
      ELSE IF HandlingRaises THEN 500
      ELSE IF ~NonBlank(Chosen) THEN 400
      ELSE IF ErrorResult THEN 502
      ELSE 200

\* a request answered with 200 and the aggregator result, with opportunities
\* in it, as the body
RouteAnswers200 ==
  /\ pc = "responded"
  /\ response.status = 200
  /\ response.body = result
  /\ result.opportunities # <<>>

\* the largest stored version of (client, blog) in rows, 0 if there is none
StoredMax(rows, client_id, blog_id) ==
  LET vs == { r.version_number :
                r \in { x \in rows : x.client_id = client_id
                                      /\ x.blog_idea_id = blog_id } }
  IN IF vs = {} THEN 0 ELSE MaxOf(vs)

\* the rows of `after` that are not in `before`
NewRows(before, after) == after \ before

\* C17: writeHTML inserts a row for (client_id, blog_id, version_number) if
\* and only if version_number is the stored maximum of (client_id, blog_id)
\* plus 1; otherwise it raises and leaves html_artifacts unchanged.
C17_VersionCheck ==
  \A w \in Writers :
    LET c == html_calls[w] IN
    c.pc \in {"returned", "raised"} =>
      IF c.version_number = StoredMax(c.before, c.client_id, c.blog_id) + 1
      THEN /\ c.pc = "returned"
           /\ c.before \subseteq c.after
           /\ \E r \in c.after :
                /\ NewRows(c.before, c.after) = {r}
                /\ r.client_id = c.client_id
                /\ r.blog_idea_id = c.blog_id
                /\ r.version_number = c.version_number
                /\ r.html = c.html
      ELSE /\ c.pc = "raised"
           /\ c.after = c.before

\* C17 witness: version 2 of blog 2 was written after version 1, while
\* blog 1 has a version of its own.
C17_Witness ==
  \E w \in Writers :
    /\ html_calls[w].pc = "returned"
    /\ html_calls[w].blog_id = 2
    /\ html_calls[w].version_number = 2
    /\ StoredMax(html_calls[w].before, 1, 2) = 1
    /\ StoredMax(html_calls[w].before, 1, 1) = 1

\* the largest stored version of the client in rows, 0 if there is none
StoredStrategyMax(rows, client_id) ==
  LET vs == { r.version_number : r \in { x \in rows : x.client_id = client_id } }
  IN IF vs = {} THEN 0 ELSE MaxOf(vs)

\* copy_from_version of the call names a version the client has not
CopiesMissingVersion(c) ==
  /\ c.copy_from_version # JNone
  /\ ~\E r \in c.before : /\ r.client_id = c.client_id
                            /\ r.version_number = c.copy_from_version[2]

\* C18: a createStrategy call that succeeds inserts exactly one row, of the
\* client, whose version_number is the client's previous maximum plus 1
\* (1 for a client without strategy), and returns that number; a call whose
\* copy_from_version names a version the client has not raises and inserts
\* nothing.
C18_NextVersion ==
  \A w \in Creators :
    LET c == strategy_calls[w] IN
    /\ c.pc = "returned" =>
         /\ c.before \subseteq c.after
         /\ \E r \in c.after :
              /\ NewRows(c.before, c.after) = {r}
              /\ r.client_id = c.client_id
              /\ r.version_number = StoredStrategyMax(c.before, c.client_id) + 1
              /\ c.version_number = r.version_number
    /\ c.pc \in {"returned", "raised"} /\ CopiesMissingVersion(c) =>
         /\ c.pc = "raised"
         /\ c.after = c.before

\* C18 witness: client 2, without strategy, gets version 1 while client 1 has
\* two versions.
C18_Witness ==
  \E w \in Creators :
    /\ strategy_calls[w].pc = "returned"
    /\ strategy_calls[w].client_id = 2
    /\ strategy_calls[w].version_number = 1
    /\ StoredStrategyMax(strategy_calls[w].before, 1) = 2

\* C18 witness of the copy: version 2 of client 1 is a copy of the edited
\* version 1.
StrategyCopied ==
  \E w \in Creators :
    /\ strategy_calls[w].pc = "returned"
    /\ strategy_calls[w].copy_from_version = JNum(1)
    /\ StrategyRow(1, 2, EditedStrategy.sections) \in strategies

\* a call of createStrategy raised for a version the client has not
StrategyCopyRaised ==
  \E w \in Creators :
    /\ strategy_calls[w].pc = "raised"
    /\ CopiesMissingVersion(strategy_calls[w])

\* the rows of the client whose keyword is kw up to letter case
SameKeyword(rows, client_id, kw) ==
  { r \in rows : r.client_id = client_id /\ Lower(r.keyword) = Lower(kw) }

\* C19: for calls made one after another, an addKeyword call whose trimmed
\* keyword matches a keyword of the client up to letter case inserts nothing
\* and returns "already_exists" with the id of the matching row; no two rows
\* of one client have the same lower-cased keyword; a keyword that is empty
\* after trimming raises and inserts nothing.
C19_Idempotent ==
  /\ \A r1 \in keyword_ideas, r2 \in keyword_ideas :
       r1.client_id = r2.client_id /\ Lower(r1.keyword) = Lower(r2.keyword)
         => r1 = r2
  /\ keyword_call.pc \in {"returned", "raised"} =>
       LET c == keyword_call
           kw == Strip(c.keyword)
           same == SameKeyword(c.before, c.client_id, kw)
       IN IF kw = <<>>
          THEN c.pc = "raised" /\ keyword_ideas = c.before
          ELSE IF same # {}
          THEN /\ c.pc = "returned"
               /\ c.status = "already_exists"
               /\ c.keyword_id \in { r.id : r \in same }
               /\ keyword_ideas = c.before
          ELSE /\ c.pc = "returned"
               /\ c.status = "success"
               /\ keyword_ideas =
                    c.before \cup {[id |-> c.keyword_id,
                                    client_id |-> c.client_id, keyword |-> kw]}
               /\ \A r \in c.before : r.id # c.keyword_id

\* C19 witness: " K" is added for client 1, which has "k" stored, while
\* client 2 has "K" stored: the call returns the id of client 1's row.
C19_Witness ==
  /\ keyword_call.pc = "returned"
  /\ keyword_call.status = "already_exists"
  /\ keyword_call.client_id = 1
  /\ keyword_call.keyword = <<" ", "K">>
  /\ \E r \in keyword_ideas :
       r.client_id = 1 /\ r.keyword = <<"k">> /\ r.id = keyword_call.keyword_id
  /\ \E r \in keyword_ideas : r.client_id = 2 /\ r.keyword = <<"K">>

\* a call of addKeyword with a blank keyword raised on a table with rows
KeywordBlankRaised ==
  /\ keyword_call.pc = "raised"
  /\ keyword_call.keyword = <<" ">>
  /\ keyword_ideas # {}

\* generate_image has posted and got an answer
ImageAnswered == image.pc # "idle" /\ image.result # ""

\* C20: generate_image performs 3 retries with delays of 1s, 2s and 4s, stops
\* at the first answer, raises after the last failed attempt, and calls the
\* S3 upload only if an attempt was answered.
C20_ThreeRetries ==
  image.pc # "idle" =>
    /\ image.cause = "attempts" =>
         /\ image.pc = "raised"
         /\ image.posts = 1 + 3
         /\ image.sleeps = <<1, 2, 4>>
    /\ image.posts <= 1 + 3
    /\ ImageAnswered => image.posts = image.attempt + 1
    /\ image.put_objects > 0 => ImageAnswered

\* the loop of the code: at most max_retries posts, a sleep of
\* base_delay * 2^k after the failed post k except the last, no post after an
\* answer, put_object at most once and only after an answer that decodes
ImageBackoff ==
  image.pc # "idle" =>
    /\ image.cause = "attempts" =>
         /\ image.pc = "raised"
         /\ image.posts = max_retries
         /\ image.sleeps = <<1, 2>>
    /\ image.posts <= max_retries
    /\ Len(image.sleeps) = image.attempt
    /\ \A k \in 1..Len(image.sleeps) : image.sleeps[k] = 2 ^ (k - 1)
    /\ ImageAnswered => image.posts = image.attempt + 1
    /\ image.put_objects <= 1
    /\ image.put_objects > 0 => ImageAnswered /\ ImageDecodes(image.result)

\* every post failed: generate_image raised after the last attempt
ImageGaveUp == image.pc = "raised" /\ image.cause = "attempts"

\* the third post was answered with an image and put_object was called
ImageThirdAttemptUploaded ==
  /\ image.pc = "returned"
  /\ image.posts = 3
  /\ image.put_objects = 1

\* s is a prefix of t
IsPrefix(s, t) == Len(s) <= Len(t) /\ SubSeq(t, 1, Len(s)) = s

\* every entry of the aggregate a is in b at the same place, with values
\* that are no smaller and a competitor list that has only grown
AggGrows(a, b) ==
  /\ Len(a) <= Len(b)
  /\ \A i \in 1..Len(a) :
       /\ b[i].keyword = a[i].keyword
       /\ b[i].search_volume >= a[i].search_volume
       /\ b[i].cpc >= a[i].cpc
       /\ b[i].competition >= a[i].competition
       /\ IsPrefix(a[i].competitors, b[i].competitors)

\* C21: during a run, once an entry of a keyword exists its search_volume,
\* cpc and competition never decrease, its competitor list never loses an
\* element, and no entry is removed, whatever records are processed.
C21_NeverDecreases == [][AggGrows(agg, agg')]_vars

\* C21 witness: a record of a later competitor carried a smaller volume and a
\* smaller competition than the entry of its keyword, which has two
\* competitors.
C21_Witness ==
  \E n \in 2..Len(fetched) :
    /\ fetched[n].ok
    /\ \E j \in 1..Len(fetched[n].items), i \in 1..Len(agg) :
         /\ WellFormed(fetched[n].items[j])
         /\ agg[i].keyword = KwText(fetched[n].items[j])
         /\ agg[i].search_volume > NumOr0(fetched[n].items[j].search_volume)
         /\ agg[i].competition > NumOr0(fetched[n].items[j].competition)
         /\ Len(agg[i].competitors) >= 2

\* the orders in which n things can be taken
Permutations1(n) ==
  { p \in [1..n -> 1..n] : \A i \in 1..n, j \in 1..n : p[i] = p[j] => i = j }

\* the sequence s backwards
Reverse(s) == [i \in 1..Len(s) |-> s[Len(s) + 1 - i]]

\* the gap responses f taken in the order p, their records backwards if rev
Reordered(f, p, rev) ==
  [i \in 1..Len(f) |->
     IF rev THEN [f[p[i]] EXCEPT !.items = Reverse(@)] ELSE f[p[i]]]

\* the aggregate a as a set: per keyword its values and its set of competitors
AggContent(a) ==
  { [keyword |-> a[i].keyword, search_volume |-> a[i].search_volume,
     cpc |-> a[i].cpc, competition |-> a[i].competition,
     competitors |-> { a[i].competitors[j] : j \in 1..Len(a[i].competitors) }] :
    i \in 1..Len(a) }

\* no record fetched so far makes the processing raise
AllWellFormed == \A r \in FetchedRecords : WellFormed(r.it)

\* C22: merging is commutative in the processing order: the gap responses
\* taken in any other order of the competitors (and their records backwards)
\* give an aggregate with the same keys and, per key, the same
\* search_volume, cpc, competition and set of competitors.
C22_MergeCommutes ==
  (pc \in {"gap", "done"} /\ AllWellFormed) =>
    \A p \in Permutations1(Len(fetched)), rev \in BOOLEAN :
      AggContent(AggOfSucceeded(Reordered(fetched, p, rev),
                                [raised |-> FALSE, agg |-> <<>>]))
        = AggContent(agg)

\* C22 witness: a run of two competitors with records of the same keyword,
\* whose aggregate, built in the other order, lists the entries or the
\* competitors in another order.
C22_Witness ==
  /\ ReturnedOk
  /\ AllWellFormed
  /\ Len(fetched) >= 2
  /\ \E i \in 1..Len(agg) : Len(agg[i].competitors) >= 2
  /\ AggOfSucceeded(Reverse(fetched), [raised |-> FALSE, agg |-> <<>>]) # agg

\* C23: the outbound calls of an invocation form one sequential flow: one
\* discovery call first, then at most one gap fetch per selected
\* competitor, in list order, each issued after the previous call has
\* returned or failed; no call is retried, so there are at most 1 + the
\* number of selected competitors calls.
C23_SequentialCalls ==
  /\ pc \in {"competitors", "gap"} => calls # <<>>
  /\ calls # <<>> => calls[1].endpoint = "competitors_domain/live"
  /\ \A n \in 2..Len(calls) :
       /\ calls[n].endpoint = "domain_intersection/live"
       /\ n - 1 <= Len(competitors)
       /\ calls[n].target1 = competitors[n - 1]
  /\ Len(calls) <= 1 + Len(competitors)
  /\ pc = "competitors" => Len(calls) = 1 /\ discovery.state = "none"
  /\ pc = "gap" => discovery.state = "ok" /\ Len(calls) = Len(fetched) + 2
  /\ pc = "done" /\ calls # <<>> =>
       /\ discovery.state # "none"
       /\ Len(calls) = Len(fetched) + 1

\* C23 witness: a run over three competitors returned after four calls,
\* the gap fetch of the second competitor having failed.
C23_Witness ==
  /\ pc = "done"
  /\ Len(competitors) = 3
  /\ Len(calls) = 4
  /\ ~fetched[2].ok
  /\ fetched[3].ok

\* the discovered domains, trimmed and lower-cased, without the target and
\* without repetitions, in the order of the response
FilteredDiscovery ==
  DedupeExclude(ItemDomains(discovery.items), target, {})

\* the first n entries of s, none if n is not positive
FirstN(s, n) == SubSeq(s, 1, Min(Len(s), Max(0, n)))

\* C24: the selected competitor list is the order-preserving prefix of the
\* filtered discovery results: no entry equal to the normalized target, no
\* duplicate domain, the order of the response, and the first
\* max_competitors entries of the filtered sequence.
C24_SelectedPrefix ==
  discovery.state = "ok" =>
    /\ competitors = FirstN(FilteredDiscovery, max_competitors)
    /\ \A i \in 1..Len(competitors) : competitors[i] # target
    /\ \A i \in 1..Len(competitors), j \in 1..Len(competitors) :
         competitors[i] = competitors[j] => i = j

\* the selection when max_competitors is not negative
SelectedPrefixIfNotNegative ==
  discovery.state = "ok" /\ args.max_competitors >= 0 =>
    competitors = FirstN(FilteredDiscovery, max_competitors)

\* the competitors whose fetched records contain kw, in the order of their
\* gap fetches
Contributors(kw) ==
  LET hit == SelectSeq(fetched, LAMBDA f :
               f.ok /\ \E j \in 1..Len(f.items) : KwText(f.items[j]) = kw)
  IN [i \in 1..Len(hit) |-> hit[i].comp]

\* C25: every emitted record's example_competitors is the comma-joined list
\* of the first min(5, competitor_count) contributing competitors, in the
\* order in which they first contributed the keyword, none repeated, each a
\* member of competitors_used.
C25_ExampleCompetitors ==
  ReturnedOk =>
    \A o \in Opps :
      LET cs == Contributors(o.keyword)
          listed == SubSeq(cs, 1, Min(5, o.competitor_count))
      IN /\ o.competitor_count = Len(cs)
         /\ o.example_competitors = JoinComma(listed)
         /\ \A i \in 1..Len(listed), j \in 1..Len(listed) :
              listed[i] = listed[j] => i = j
         /\ \A i \in 1..Len(listed) : InSeq(listed[i], result.competitors_used)

\* C25 witness: a keyword of seven competitors, the first of which did not
\* contribute it, is emitted with five of them listed.
C25_Witness ==
  /\ ReturnedOk
  /\ \E o \in Opps :
       /\ o.competitor_count = 6
       /\ o.example_competitors =
            JoinComma(SubSeq(ManyCompetitors, 2, 6))

\* the row of rows with the client and version of row r
SameStrategy(rows, r) ==
  { x \in rows : x.client_id = r.client_id
                 /\ x.version_number = r.version_number }

\* C26: an edit-section call on an existing (client_id, version_number) with
\* one of the 17 section keys changes only that section of that row and
\* leaves every other section and every other row unchanged; when the row
\* does not exist or the key is not one of the 17, it raises and changes
\* nothing.
C26_OnlyNamedSection ==
  \A w \in Creators :
    LET c == strategy_calls[w] IN
    c.pc \in {"returned", "raised"} =>
      IF /\ c.section_key \in STRATEGY_SECTIONS
         /\ \E r \in c.before : /\ r.client_id = c.client_id
                                  /\ r.version_number = c.version_number
      THEN /\ c.pc = "returned"
           /\ Cardinality(c.after) = Cardinality(c.before)
           /\ \A r \in c.before :
                \E x \in SameStrategy(c.after, r) :
                  \A k \in STRATEGY_SECTIONS :
                    x.sections[k] =
                      IF /\ r.client_id = c.client_id
                         /\ r.version_number = c.version_number
                         /\ k = c.section_key
                      THEN c.content ELSE r.sections[k]
      ELSE /\ c.pc = "raised"
           /\ c.after = c.before

\* C26 witness: section_14 of version 1 of client 1 was edited, while
\* version 2 of the client still has no section_14.
C26_Witness ==
  \E w \in Creators :
    /\ strategy_calls[w].pc = "returned"
    /\ strategy_calls[w].section_key = "section_14"
    /\ \E r1 \in strategies, r2 \in strategies :
         /\ r1.client_id = 1 /\ r1.version_number = 1
         /\ r1.sections["section_14"] = "new"
         /\ r1.sections["executive_summary"] = "text"
         /\ r2.client_id = 1 /\ r2.version_number = 2
         /\ r2.sections["section_14"] = None

\* an edit with a key that is no section raised
EditUnknownKeyRaised ==
  \E w \in Creators :
    /\ strategy_calls[w].pc = "raised"
    /\ strategy_calls[w].section_key = "section_15"
    /\ strategies # {}

\* the aggregator returned a result that carries an error
ReturnedError == result # NoResult /\ result.error # None

\* C27: in every result of the aggregator a non-null error comes with empty
\* opportunities and empty competitors_used; the route answers 502 for
\* every result that carries an error, and no partial result is returned.
C27_ErrorMeansEmpty ==
  ReturnedError =>
    /\ result.opportunities = <<>>
    /\ result.competitors_used = <<>>
    /\ pc = "responded" => response.status = 502

\* C27 witness: a run that had selected competitors and aggregated records
\* ended with an error, and the route answered 502.
C27_Witness ==
  /\ pc = "responded"
  /\ ReturnedError
  /\ response.status = 502
  /\ competitors # <<>>
  /\ agg # <<>>

\* the run reached the gap-fetch loop and has returned
LoopReturned == pc = "done" /\ fetched # <<>>

\* every gap fetch of the run failed
AllFetchesFailed == \A n \in 1..Len(fetched) : ~fetched[n].ok

\* C28 as stated: on every run that reaches the gap-fetch loop
\* competitors_used is the full selected list whatever the fetch outcomes;
\* when every fetch fails the result is no opportunities, a non-empty
\* competitors_used and error = null.
C28_CompetitorsUsedFull ==
  LoopReturned =>
    /\ result.competitors_used = competitors
    /\ AllFetchesFailed =>
         /\ result.opportunities = <<>>
         /\ result.competitors_used # <<>>
         /\ result.error = None

\* C28 amended: a run that reaches the gap-fetch loop either returns
\* error = null with competitors_used the full selected list, whatever
\* fetches failed (all of them failing gives no opportunities and a
\* non-empty competitors_used), or the processing of a record of a fetch
\* that succeeded raised, and it returns an error with both lists empty.
C28_CompetitorsUsedUnlessRaised ==
  LoopReturned =>
    /\ \/ /\ result.error = None
          /\ result.competitors_used = competitors
          /\ Len(fetched) = Len(competitors)
       \/ /\ result.error # None
          /\ result.competitors_used = <<>>
          /\ result.opportunities = <<>>
          /\ fetched[Len(fetched)].ok
          /\ \E j \in 1..Len(fetched[Len(fetched)].items) :
               ~WellFormed(fetched[Len(fetched)].items[j])
    /\ AllWellFormed => result.error = None
    /\ AllFetchesFailed =>
         /\ result.opportunities = <<>>
         /\ result.competitors_used # <<>>
         /\ result.error = None

\* C28 witness: the gap fetches of all three competitors failed and the run
\* returned them as competitors_used, without opportunities or error.
C28_Witness ==
  /\ LoopReturned
  /\ AllFetchesFailed
  /\ Len(competitors) = 3
  /\ result.competitors_used = competitors
  /\ result.opportunities = <<>>
  /\ result.error = None

\* the stored version numbers of (client_id, blog_id)
StoredVersions(client_id, blog_id) ==
  { r.version_number :
      r \in { x \in html_artifacts : x.client_id = client_id
                                      /\ x.blog_idea_id = blog_id } }

\* C29: after any interleaving of concurrent writeHTML calls for the same
\* (client_id, blog_id) the stored versions are exactly 1..n, without gap
\* and without two rows of the same version_number; two concurrent calls
\* that submit the same version_number cannot both succeed.
C29_VersionsUnique ==
  /\ \A c \in HtmlClients, b \in HtmlBlogs :
       /\ \A r1 \in html_artifacts, r2 \in html_artifacts :
            (/\ r1.client_id = c /\ r1.blog_idea_id = b
             /\ r2.client_id = c /\ r2.blog_idea_id = b
             /\ r1.version_number = r2.version_number) => r1 = r2
       /\ StoredVersions(c, b) = 1..Cardinality(StoredVersions(c, b))
  /\ \A w1 \in Writers, w2 \in Writers :
       (/\ w1 # w2
        /\ html_calls[w1].pc = "returned" /\ html_calls[w2].pc = "returned"
        /\ html_calls[w1].client_id = html_calls[w2].client_id
        /\ html_calls[w1].blog_id = html_calls[w2].blog_id)
         => html_calls[w1].version_number # html_calls[w2].version_number

\* the versions of every (client_id, blog_id) are 1..n, rows of the same
\* version counted once
NoVersionGap ==
  \A c \in HtmlClients, b \in HtmlBlogs :
    StoredVersions(c, b) = 1..Cardinality(StoredVersions(c, b))

\* the stored version numbers of the client
StrategyVersions(client_id) ==
  { r.version_number : r \in { x \in strategies : x.client_id = client_id } }

\* C30: after any interleaving of concurrent createStrategy calls no two
\* rows share (client_id, version_number), the stored versions of a client
\* are exactly 1..n, the calls that return success return different
\* version numbers, and a call that loses the race fails with an error and
\* overwrites no row.
C30_VersionsUnique ==
  /\ \A r1 \in strategies, r2 \in strategies :
       (r1.client_id = r2.client_id /\ r1.version_number = r2.version_number)
         => r1 = r2
  /\ \A c \in StrategyClients :
       StrategyVersions(c) = 1..Cardinality(StrategyVersions(c))
  /\ \A w1 \in Creators, w2 \in Creators :
       (/\ w1 # w2
        /\ strategy_calls[w1].pc = "returned"
        /\ strategy_calls[w2].pc = "returned"
        /\ strategy_calls[w1].client_id = strategy_calls[w2].client_id)
         => strategy_calls[w1].version_number # strategy_calls[w2].version_number
  /\ \A w \in Creators :
       LET c == strategy_calls[w] IN
       c.pc \in {"returned", "raised"} =>
         /\ c.before \subseteq c.after
         /\ c.after \subseteq strategies
         /\ c.pc = "raised" =>
              \/ CopiesMissingVersion(c)
              \/ \E r \in c.after : /\ r.client_id = c.client_id
                                      /\ r.version_number = c.current_max + 1

\* C30 witness: two callers read the same latest version of client 1; one
\* has inserted version 2 and returned, the other has failed.
C30_Witness ==
  \E w1 \in Creators, w2 \in Creators :
    /\ strategy_calls[w1].pc = "returned"
    /\ strategy_calls[w2].pc = "raised"
    /\ strategy_calls[w1].client_id = 1
    /\ strategy_calls[w2].client_id = 1
    /\ strategy_calls[w1].current_max = 1
    /\ strategy_calls[w2].current_max = 1
    /\ strategy_calls[w1].version_number = 2
    /\ strategy_calls[w2].copy_from_version = JNone

====
